---- MODULE Spec2Model ----
(***************************************************************************)
(* A state-machine model of RiftSubsidence.py (the theoretical subsidence  *)
(* curve calculator) and of the consumers of its output file.              *)
(*                                                                         *)
(* Numbers.  The program computes in double precision; the model computes  *)
(* in fixed point, each quantity on its own grid:                          *)
(*   densities                  1e-2 g/cc      (RHOM = 335 is 3.35)        *)
(*   lengths TC, TL, DW, TCO    1e-1 km                                    *)
(*   TIMSC                      1e-1 Myr                                   *)
(*   dimensionless time         1e-4 / TIMSC   (T, DT, DTEND1, DTST, ...:  *)
(*                              held multiplied by TIMSC, in 1e-4 Myr)     *)
(*   dimensionless temperature  1e-4           (TEM)                       *)
(*   strain rate G, AMPL        1e-1                                       *)
(*   stretching factors         1e-2           (BETMIN = 150 is 1.5)       *)
(*   table columns              1e-4           (DATA, after finalisation)  *)
(*   subsidence column, SINIT   1e-5 km        (one centimetre)            *)
(*   file columns               1e-3           (what WRITE prints)         *)
(* Divisions round to the nearest grid point (RDiv).  Parameters that the  *)
(* program reads as numbers of Myr are in 1e-1 Myr (TBEG1 = 100 is 10).    *)
(***************************************************************************)
EXTENDS Integers, Sequences, FiniteSets, TLC

\* ---------------------------------------------------------------- arithmetic

Abs(x) == IF x < 0 THEN -x ELSE x

Min(a, b) == IF a <= b THEN a ELSE b

\* a / b rounded to the nearest integer (b # 0)
RDiv(a, b) == IF b > 0 THEN (a + b \div 2) \div b
                       ELSE ((-a) + (-b) \div 2) \div (-b)

\* k*a/b rounded to the nearest integer, without forming k*a
QDiv(a, b, k) == IF b > 0 THEN (a \div b) * k + RDiv((a % b) * k, b)
                          ELSE ((-a) \div (-b)) * k + RDiv(((-a) % (-b)) * k, -b)

\* the fixed-point grids
FP4 == 10^4
TSC == 10^5
M6 == 10^6

\* a*b on the 1e-6 grid, from the thousands and the units of a and b
Mul6(a, b) ==
    LET ah == a \div 1000
        al == a % 1000
        bh == b \div 1000
        bl == b % 1000
    IN  ah * bh + RDiv(ah * bl + al * bh + RDiv(al * bl, 1000), 1000)

\* math.exp on the 1e-6 grid: the Taylor polynomial on [-0.5, 0.5], and
\* exp(x) = exp(x -+ 0.5) * exp(+-0.5) or exp(x + 4) * exp(-4) outside it;
\* below -15 it is 0 on this grid
Exp6Small(x) ==
    LET t2 == RDiv(Mul6(x, x), 2)
        t3 == RDiv(Mul6(t2, x), 3)
        t4 == RDiv(Mul6(t3, x), 4)
        t5 == RDiv(Mul6(t4, x), 5)
        t6 == RDiv(Mul6(t5, x), 6)
        t7 == RDiv(Mul6(t6, x), 7)
        t8 == RDiv(Mul6(t7, x), 8)
    IN  M6 + x + t2 + t3 + t4 + t5 + t6 + t7 + t8

RECURSIVE Exp6(_)
Exp6(x) == IF x > 500000 THEN Mul6(Exp6(x - 500000), 1648721)
           ELSE IF x < -15 * M6 THEN 0
           ELSE IF x < -4 * M6 THEN Mul6(Exp6(x + 4 * M6), 18316)
           ELSE IF x < -500000 THEN Mul6(Exp6(x + 500000), 606531)
           ELSE Exp6Small(x)

\* e^(x/FP4) * FP4 for |x| <= FP4/2: the Taylor polynomial of degree 6
ExpSmall(x) ==
    LET t2 == RDiv(x * x, 2 * FP4)
        t3 == RDiv(t2 * x, 3 * FP4)
        t4 == RDiv(t3 * x, 4 * FP4)
        t5 == RDiv(t4 * x, 5 * FP4)
        t6 == RDiv(t5 * x, 6 * FP4)
    IN  FP4 + x + t2 + t3 + t4 + t5 + t6

\* math.exp: e^(x/FP4) * FP4 (16487 and 6065 are e^0.5 and e^-0.5)
RECURSIVE Exp(_)
Exp(x) == IF x > 5000 THEN RDiv(Exp(x - 5000) * 16487, FP4)
          ELSE IF x < -5000
               THEN (IF x < -120000 THEN 0 ELSE RDiv(Exp(x + 5000) * 6065, FP4))
               ELSE ExpSmall(x)

\* math.log of a stretching factor b (1e-2 grid, b > 0): ln(b/100) * FP4,
\* from ln(x) = 2 atanh((x-1)/(x+1))
Ln(b) ==
    LET z  == RDiv((b - 100) * FP4, b + 100)
        z2 == RDiv(z * z, FP4)
        t3 == RDiv(z * z2, FP4)
        t5 == RDiv(t3 * z2, FP4)
        t7 == RDiv(t5 * z2, FP4)
        t9 == RDiv(t7 * z2, FP4)
        t11 == RDiv(t9 * z2, FP4)
    IN  2 * z + RDiv(2 * t3, 3) + RDiv(2 * t5, 5) + RDiv(2 * t7, 7)
              + RDiv(2 * t9, 9) + RDiv(2 * t11, 11)

\* math.sin for |x| <= FP4 (one radian): x - x^3/6 + x^5/120
Sin(x) ==
    LET x2 == RDiv(x * x, FP4)
        t3 == RDiv(x * x2, 6 * FP4)
        t5 == RDiv(t3 * x2, 20 * FP4)
    IN  x - t3 + t5

\* math.sqrt: the integer square root of n >= 0, by bisection on lo..hi
RECURSIVE SqrtIn(_, _, _)
SqrtIn(n, lo, hi) ==
    IF lo >= hi THEN lo
    ELSE LET mid == (lo + hi + 1) \div 2
         IN  IF mid * mid <= n THEN SqrtIn(n, mid, hi) ELSE SqrtIn(n, lo, mid - 1)

Sqrt(n) == SqrtIn(n, 0, 46340)

\* math.cos for |x| <= FP4 (one radian): 1 - x^2/2 + x^4/24 - x^6/720
Cos(x) ==
    LET x2 == RDiv(x * x, FP4)
        t2 == RDiv(x2, 2)
        t4 == RDiv(t2 * x2, 12 * FP4)
        t6 == RDiv(t4 * x2, 30 * FP4)
    IN  FP4 - t2 + t4 - t6

\* math.sin and math.cos for any angle x (1e-4 rad): x is brought into
\* [0, 2 pi), then into the first quadrant, where the polynomial of the nearer
\* end is used (31416 is pi)
SinQ(y) == IF y <= 7854 THEN Sin(y) ELSE Cos(15708 - y)
SinH(y) == IF y <= 15708 THEN SinQ(y) ELSE SinQ(31416 - y)
SinR(x) ==
    LET y == x % 62832
    IN  IF y <= 31416 THEN SinH(y) ELSE -SinH(y - 31416)
CosR(x) == SinR(x + 15708)

\* ------------------------------------------------------ program constants

NDIM2 == 10000
RHOM == 335
RHOC == 278
RHOW == 103
TASTH == 1333
\* TEXPAN = 3.28E-5 on the 1e-7 grid
TEXPAN == 328
\* TAUS = 43.28 Myr on the 1e-2 grid
TAUS == 4328
IHFLW == 1
\* CONDTY = 38.544 on the 1e-2 grid
CONDTY == 3854
\* TCO = 7 km and DW = 2.5 km
TCO == 70
DW == 25
\* DIFFUS*3.15E+13 = 25326000 m^2/Myr, in 1e3 m^2/Myr
DIFFMYR == 25326
\* PI = 3.1415927 on the 1e-4 grid; CYCLES = 1.5 and FRAC = 0.8 on the 1e-1 grid
PI == 31416
CYCLES == 15
FRAC == 8
\* TIMSTR's grid: DZ = 0.05 on the 1e-4 grid, JN = 20 depth steps
DZ == 500
JN == 20
JNP1 == JN + 1
\* the value WRITE prints for an unset field, -999999., on the file grid
UNSETVAL == -999999000

\* TEXPAN*TASTH on the 1e-4 grid
ALPHA == RDiv(TEXPAN * TASTH, 1000)

\* ------------------------------------------------------------------ state

VARIABLES
    cfg,          \* the module-level parameters (BETMIN ... TC, PLABEL's file)
    TL, TIMSC, CONBET, CONTRM,    \* globals of calculate_TL, nondimensionalise_parameters, setup_constants
    GP1, GP2, GP3, AMPL, WAVEN,   \* strain-rate globals
    SINIT, TRINIT,                \* per-episode carry state
    K, DATA, TEM,                 \* the row counter, the table, the two buffers
    pc,           \* where run() and its callers stand
    exc,          \* the exception that ended run(), or "none"
    BETA1, KRR,   \* run()'s locals
    T, DT, DTI, JGI, JFLAG, IADV, \* TIMSTR's locals
    CI, CJ, CF,   \* COMPAC's locals I, J and F[0..J-1]
    file,         \* the lines WRITE wrote
    beta_groups,  \* what read_rift_subsidence_output returned
    ts,           \* the TectonicSubsidence object that calls run() and reads its output
    hist          \* observation: what the runs of this process did

vars == <<cfg, TL, TIMSC, CONBET, CONTRM, GP1, GP2, GP3, AMPL, WAVEN, SINIT, TRINIT, K, DATA, TEM, pc, exc,
          BETA1, KRR, T, DT, DTI, JGI, JFLAG, IADV, CI, CJ, CF, file,
          beta_groups, ts, hist>>

IRIFT == cfg.IRIFT
TC == cfg.TC
TBEG1 == cfg.TBEG1
TEND1 == cfg.TEND1
TBEG2 == cfg.TBEG2
TEND2 == cfg.TEND2
TBEG3 == cfg.TBEG3
TEND3 == cfg.TEND3
TSTOP == cfg.TSTOP
BETMIN == cfg.BETMIN
BETMAX == cfg.BETMAX
BETINC == cfg.BETINC
BETA2 == cfg.BETA2
BETA3 == cfg.BETA3
ITYPE1 == cfg.ITYPE1
ITYPE2 == cfg.ITYPE2
ITYPE3 == cfg.ITYPE3
ILOAD == cfg.ILOAD
ICOMP == cfg.ICOMP
RHOS == cfg.RHOS
PHI0 == cfg.PHI0
CONST == cfg.CONST

\* -------------------------------------------------------------- check_cfg

\* check_cfg with the first assertion written with >= in place of >
check_cfg_weak ==
    /\ (IRIFT >= 1 => TBEG1 >= TEND1)
    /\ (IRIFT >= 2 => TBEG2 > TEND2)
    /\ (IRIFT >= 3 => TBEG3 > TEND3)

check_cfg ==
    /\ (IRIFT >= 1 => TBEG1 > TEND1)
    /\ (IRIFT >= 2 => TBEG2 > TEND2)
    /\ (IRIFT >= 3 => TBEG3 > TEND3)

\* ----------------------------------------------------------- calculate_TL

AINT == RDiv(RHOM * ALPHA, 2000)
BINT == (RHOW * DW + RHOC * TCO) - RDiv((DW + TCO) * RHOM * (FP4 - ALPHA), FP4)
        - TC * (RHOC - RHOM)
CINT == RDiv(TC * TC * RDiv(ALPHA * (RHOM - RHOC), 100), 2000)
DISC == BINT * BINT - 4 * AINT * CINT

\* the root the code keeps, negated (1e-1 km); meaningful when DISC >= 0
TLroot ==
    LET r1 == RDiv((-BINT + Sqrt(DISC)) * 10, 2 * AINT)
        r2 == RDiv((-BINT - Sqrt(DISC)) * 10, 2 * AINT)
    IN  -(IF r1 <= 200 \/ r1 >= 2000 THEN r2 ELSE r1)

\* what calculate_TL does: math.sqrt raises on a negative argument; TLM is
\* bound only when TL >= TC and is printed unconditionally; TL is the global
\* it leaves, reported whether it printed its ERROR line
calculate_TL ==
    IF DISC < 0 THEN [exc |-> "ValueError", reported |-> FALSE, TL |-> TL]
    ELSE IF TLroot >= TC THEN [exc |-> "none", reported |-> TLroot <= TC, TL |-> TLroot]
    ELSE [exc |-> "UnboundLocalError", reported |-> TRUE, TL |-> TLroot]

\* ------------------------------------------- nondimensionalise_parameters

\* TL**2/(DIFFUS*3.15E+13), on the 1e-1 Myr grid
TIMSCof(tl) == RDiv(tl * tl * 100, DIFFMYR)

\* (-t+TBEG1)/TIMSC for a time t of the configuration (1e-1 Myr), on the time
\* grid
Dless(t) == (TBEG1 - t) * (FP4 \div 10)

DTBEG1 == Dless(TBEG1)
DTEND1 == Dless(TEND1)
DTBEG2 == Dless(TBEG2)
DTEND2 == Dless(TEND2)
DTBEG3 == Dless(TBEG3)
DTEND3 == Dless(TEND3)
DTSTOP == Dless(TSTOP)
DTST == FP4
DTAUS == TAUS * 100

\* e/DTAUS for a time e
OverTaus(e) == RDiv(e * 100, DTAUS \div 100)

\* a time w of the time grid as a plain number on the 1e-6 grid
Scaled(w) == RDiv(w * 1000, TIMSC)

\* -------------------------------------------------------- setup_constants

RHOA == RDiv(RHOM * (FP4 - ALPHA), FP4)

\* the density contrast CONBET and CONTRM are divided by
LoadRho == IF ICOMP = 0 /\ ILOAD = 2 THEN RHOA - RHOS
           ELSE IF ICOMP = 0 /\ ILOAD = 1 THEN RHOA - RHOW
           ELSE RHOA

\* CONBET and CONTRM (metres) after setup_constants; with ICOMP = 0 and ILOAD
\* outside 0..2 neither is assigned
Loaded == ICOMP # 0 \/ ILOAD \in {0, 1, 2}
CONBETof == IF Loaded THEN RDiv((RHOM - RHOC) * TC * 100, LoadRho) ELSE CONBET
CONTRMof(tl) == IF Loaded THEN RDiv(RDiv(ALPHA * RHOM, 100) * tl, LoadRho) ELSE CONTRM

\* ln(beta)/d, ln(beta)/(1-exp(-d/DTAUS)), ln(beta)/(exp(d/DTAUS)-1): the
\* strain-rate magnitude of regimes 1, 2, 3 for a stretching phase lasting d
\* when the time scale is timsc
GofType(itype, beta, d, old, timsc) ==
    IF itype = 1 THEN RDiv(Ln(beta) * timsc, d)
    ELSE IF itype = 2 THEN RDiv(10 * Ln(beta), FP4 - Exp(-OverTaus(d)))
    ELSE IF itype = 3 THEN RDiv(10 * Ln(beta), Exp(OverTaus(d)) - FP4)
    ELSE old

\* GP2 after setup_constants: assigned only when IRIFT >= 2 and ITYPE2 is 1, 2
\* or 3; the branch that would assign GP3 is the elif of "IRIFT >= 2" and
\* tests "IRIFT >= 3", so it is never taken
setup_GP2(timsc) ==
    IF IRIFT >= 2 THEN GofType(ITYPE2, BETA2, DTEND2 - DTBEG2, GP2, timsc) ELSE GP2
setup_GP3 == GP3

\* the exception setup_constants ends with: CONB1 divides by RHOA-RHOS,
\* math.log raises on a stretching factor <= 0, and the divisor of GP2 is 0
\* when the second phase has no duration
setup_exc ==
    IF RHOA = RHOS \/ (Loaded /\ LoadRho = 0) THEN "ZeroDivisionError"
    ELSE IF IRIFT >= 2 /\ ITYPE2 \in {1, 2, 3} /\ BETA2 <= 0 THEN "ValueError"
    ELSE IF IRIFT >= 2 /\ ITYPE2 \in {1, 2, 3} /\ DTEND2 = DTBEG2 THEN "ZeroDivisionError"
    ELSE "none"

\* ---------------------------------------------------- set_dless_constants

\* ITYPE1 = 4: CG = log(BETA1)/DTEND1 and AMPL = FRAC*CG
CG(beta) == RDiv(Ln(beta) * TIMSC, DTEND1)
AMPLof(beta) == RDiv(FRAC * CG(beta), 10)

\* one pass of the calibration loop for the current GP1 (gp1) and AMPL
\* (ampl): WAVEL on the time grid, WAVEN on the 1e-1 grid, ALOB in 1e-4 rad,
\* BLOB and GP1**2*CLOB on the 1e-3 grid
WAVEL(gp1, ampl) ==
    RDiv(DTEND1 * FP4, CYCLES * 1000 + RDiv(RDiv(gp1 * FP4, ampl) * FP4, PI))
WAVENof(gp1, ampl) == RDiv(2 * PI * TIMSC, WAVEL(gp1, ampl))
ALOB(gp1, ampl) == QDiv(DTEND1, WAVEL(gp1, ampl), 2 * PI)
BLOB(gp1, ampl) == RDiv(QDiv(ampl * WAVEL(gp1, ampl), DTEND1, 100) * FP4, 2 * PI)
SqCLOB(gp1, ampl) ==
    RDiv(QDiv(QDiv(gp1 * gp1, DTEND1, WAVEL(gp1, ampl)), 2 * PI, FP4) * 100, ampl)

\* GP2 = CG + BLOB*(cos(ALOB - 2*GP1/AMPL) - 1) + GP1**2*CLOB, on the 1e-1
\* grid
GP2of(cg, gp1, ampl) ==
    RDiv(cg * 100
         + RDiv(BLOB(gp1, ampl)
                * (CosR(ALOB(gp1, ampl) - RDiv(2 * gp1 * FP4, ampl)) - FP4), FP4)
         + SqCLOB(gp1, ampl), 100)

\* the calibration loop: it goes round until GP2 is GP1 to 1e-6, on this grid
\* until GP2 = GP1; WAVEN is that of the last pass
RECURSIVE Calibrate(_, _, _)
Calibrate(cg, gp1, ampl) ==
    CHOOSE r \in {IF gp2 # gp1 THEN Calibrate(cg, gp2, ampl)
                  ELSE [GP1 |-> gp1, WAVEN |-> WAVENof(gp1, ampl)] :
                     gp2 \in {GP2of(cg, gp1, ampl)}} : TRUE

\* GP1, AMPL and WAVEN after set_dless_constants(beta): the first phase
\* starts at 0, so it lasts DTEND1; AMPL and WAVEN are assigned only for
\* ITYPE1 = 4
set_GP1(beta) ==
    IF ITYPE1 = 4 THEN Calibrate(CG(beta), CG(beta), AMPLof(beta)).GP1
    ELSE GofType(ITYPE1, beta, DTEND1, GP1, TIMSC)
set_AMPL(beta) == IF ITYPE1 = 4 THEN AMPLof(beta) ELSE AMPL
set_WAVEN(beta) ==
    IF ITYPE1 = 4 THEN Calibrate(CG(beta), CG(beta), AMPLof(beta)).WAVEN ELSE WAVEN

\* the exception it ends with: math.log raises on beta <= 0, the divisor of
\* GP1 is 0 when the first phase has no duration, and the calibration loop
\* divides by AMPL
dless_exc(beta) ==
    IF ITYPE1 \in {1, 2, 3, 4} /\ beta <= 0 THEN "ValueError"
    ELSE IF ITYPE1 \in {1, 2, 3, 4} /\ DTEND1 = 0 THEN "ZeroDivisionError"
    ELSE IF ITYPE1 = 4 /\ AMPLof(beta) = 0 THEN "ZeroDivisionError"
    ELSE "none"

\* --------------------------------------------------------------- the table

Unset == [set |-> FALSE, v |-> 0]
Val(x) == [set |-> TRUE, v |-> x]
UnsetRow == [t |-> Unset, s |-> Unset, h |-> Unset, g |-> Unset]

\* DATA[.][i-1]: the table is NDIM2 rows of None; the model keeps the rows up
\* to the last one written
Row(D, i) == IF i \in DOMAIN D THEN D[i] ELSE UnsetRow

Pad(D, i) == IF Len(D) >= i THEN D
             ELSE D \o [j \in 1..(i - Len(D)) |-> UnsetRow]

PutRow(D, i, r) == [Pad(D, i) EXCEPT ![i] = r]

\* ------------------------------------------------------ TIMSTR: arguments

\* the actual arguments of the three TIMSTR calls of run()
GArg(krr) == IF krr = 0 THEN GP1 ELSE IF krr = 1 THEN GP2 ELSE GP3
DTENDArg(krr) == IF krr = 0 THEN DTEND1 ELSE IF krr = 1 THEN DTEND2 ELSE DTEND3
\* the argument DTBEGX with DTBEG2 in all three calls
DTBEGX_second(krr) == DTBEG2

DTBEGX(krr) == IF krr = 2 THEN DTBEG3 ELSE DTBEG2
DTBEGY == DTBEG3
ITYPEArg(krr) == IF krr = 0 THEN ITYPE1 ELSE IF krr = 1 THEN ITYPE2 ELSE ITYPE3
BETA12 == RDiv(BETA1 * BETA2, 100)
BETAprev(krr) == IF krr = 2 THEN BETA12 ELSE BETA1

DTHALT(krr) ==
    IF krr = 0 /\ IRIFT \in {2, 3} THEN DTBEGX(krr)
    ELSE IF krr = 1 /\ IRIFT = 3 THEN DTBEGY
    ELSE DTSTOP

\* DZ**2/2 and DZ/GMAX on the time grid
DTC == RDiv(RDiv(DZ * DZ, 2) * TIMSC, TSC)
GMAXof(g) == AMPL + g
DTCFL(g) == RDiv(DZ * TIMSC, GMAXof(g))
DTIof(g) == Min(Min(DTC, DTCFL(g)), DTST)

\* G/(AMPL*WAVEN), the breakpoint of regime 4, on the time grid
BP(g) == QDiv(g * TIMSC * 100, AMPL * WAVEN, 100)

\* WAVEN*w for a time w: an angle (1e-4 rad)
Angle(w) == RDiv(w * WAVEN, TIMSC)

\* w*AMPL*WAVEN for a time w, on the strain-rate grid
RampOf(w) == RDiv(Angle(w) * AMPL, FP4)

\* AMPL*sin(WAVEN*w) + g
SineOf(g, w) == RDiv(AMPL * SinR(Angle(w)), FP4) + g

\* g*exp(e/DTAUS)/DTAUS for a time e (regimes 2 and 3)
ExpRate(g, e) == RDiv(RDiv(g * Exp(OverTaus(e)), FP4) * TIMSC * 1000, DTAUS)

\* the strain rate TIMSTR stores in the first row of a beta group
StrainFirst(itype, g, t, dtend) ==
    IF itype = 1 THEN Val(g)
    ELSE IF itype = 2 THEN Val(ExpRate(g, -t))
    ELSE IF itype = 3 THEN Val(ExpRate(g, t))
    ELSE IF itype = 4
         THEN (IF t < BP(g) THEN Val(RampOf(t))
               ELSE IF t < dtend - BP(g) THEN Val(SineOf(g, t - BP(g)))
               ELSE Val(RampOf(dtend - t)))
    ELSE Unset

\* the strain rate TIMSTR stores in a row it appends (time t, not t-DTBEGX)
StrainRow(itype, g, t, dtend, iadv) ==
    IF iadv = 0 THEN Val(0)
    ELSE IF itype = 1 THEN Val(g)
    ELSE IF itype = 2 THEN Val(ExpRate(g, -t))
    ELSE IF itype = 3 THEN Val(ExpRate(g, t))
    ELSE IF itype = 4
         THEN (IF t <= BP(g) THEN Val(RampOf(t))
               ELSE IF t <= dtend - BP(g) THEN Val(SineOf(g, t - BP(g)))
               ELSE Val(RampOf(dtend - t)))
    ELSE Unset

\* the strain-rate multiplier of the advection term of one step
AdvRate(itype, krr, g, t, dtend) ==
    LET e == IF krr = 0 THEN t ELSE t - DTBEGX(krr)
    IN  IF itype = 1 THEN g
        ELSE IF itype = 2 THEN ExpRate(g, -e)
        ELSE IF itype = 3 THEN ExpRate(g, e)
        ELSE IF itype = 4
             THEN (IF t <= BP(g) THEN RampOf(e)
                   ELSE IF t <= dtend - BP(g) THEN SineOf(g, e - BP(g))
                   ELSE RampOf(dtend - e))
        ELSE 0

\* ------------------------------------------------- TIMSTR: one time step

\* TEM[b-1] for a buffer number b: <<>> stands for a row of None
Buf(b) == IF b \in DOMAIN TEM THEN TEM[b] ELSE <<>>

\* the conductive profile 1 - DZ*(J-1)
Conductive == [J \in 1..JNP1 |-> FP4 - DZ * (J - 1)]

\* the loop over the interior nodes J = 2..JN: node J of the write buffer wb is
\* set from the read buffer rb; the advection term differences rb, except that
\* with own = TRUE it differences the buffer being written (the row TEM[JGI]
\* of the regime-2 branch for KRR > 0)
RECURSIVE FDLoop(_, _, _, _, _, _)
FDLoop(wb, rb, J, dt, rate, own) ==
    IF J > JN THEN wb
    ELSE LET ab    == IF own THEN wb ELSE rb
             DELSQ == (rb[J + 1] - 2 * rb[J] + rb[J - 1]) * (FP4 \div DZ) * (FP4 \div DZ)
             \* (1-(J-1)*DZ)/DZ is JNP1-J
             ADV   == RDiv(rate * (JNP1 - J) * (ab[J + 1] - ab[J - 1]), 20)
         IN  \* the buffer with node J set, taken as a value, goes to node J + 1
             CHOOSE r \in {FDLoop(w, rb, J + 1, dt, rate, own) :
                              w \in {[wb EXCEPT ![J] = rb[J] + RDiv(Scaled(dt) * (DELSQ - ADV),
                                                                    10 * TSC)]}} : TRUE

\* The doubles of the program have no bound that a run meets: with DT < 0 the
\* update is unstable, the temperatures grow without limit and end as inf and
\* nan, and no comparison or exception of TIMSTR depends on them.  The model
\* follows a profile while its interior nodes stay within TEMCAP and the
\* products of the update within MaxMag; beyond that it holds every interior
\* node as Beyond, and an update that reads such a profile leaves one.
TEMCAP == 20000
MaxMag == 10^9
Beyond == TEMCAP + 1

Followed(rb, ab, dt, rate) ==
    \A J \in 2..JN :
        /\ Abs(rb[J]) <= TEMCAP
        /\ Abs(ab[J]) <= TEMCAP
        /\ Abs(ab[J + 1] - ab[J - 1]) <= MaxMag \div (Abs(rate) * JN + 1)
        /\ Abs((rb[J + 1] - 2 * rb[J] + rb[J - 1]) * (FP4 \div DZ) * (FP4 \div DZ)
               - RDiv(rate * (JNP1 - J) * (ab[J + 1] - ab[J - 1]), 20))
              <= MaxMag \div (Abs(Scaled(dt)) + 1)

\* the loop run on to the base node, which takes the value of the node above
FDStep_open(wb, rb, dt, rate, own) ==
    LET new == IF Followed(rb, IF own THEN wb ELSE rb, dt, rate)
               THEN FDLoop(wb, rb, 2, dt, rate, own)
               ELSE [J \in 1..JNP1 |-> IF J \in 2..JN THEN Beyond ELSE wb[J]]
    IN  [new EXCEPT ![JNP1] = new[JN]]

\* the write buffer after the loop over the interior nodes
FDStep(wb, rb, dt, rate, own) ==
    IF Followed(rb, IF own THEN wb ELSE rb, dt, rate)
    THEN FDLoop(wb, rb, 2, dt, rate, own)
    ELSE [J \in 1..JNP1 |-> IF J \in 2..JN THEN Beyond ELSE wb[J]]

\* T = T + DT.  With DT = DTI < 0 the time falls without limit; every
\* comparison of the loop has the same outcome for all times below -MaxBack,
\* which the model holds as -MaxBack
MaxBack == 200000
Held(t) == IF t < -MaxBack THEN -MaxBack ELSE t

\* ------------------------------------------------------------------ SUBCAL

RECURSIVE TrapSum(_, _)
TrapSum(buf, I) == IF I > JNP1 THEN 0 ELSE buf[I - 1] + buf[I] + TrapSum(buf, I + 1)

\* the trapezoidal integral of the temperature over depth
TRAP(buf) == RDiv(TrapSum(buf, 2) * DZ, 2 * FP4)

\* 0.5*WAVEN*AMPL*w**2, as 0.5*(AMPL/WAVEN)*(WAVEN*w)**2
HalfWA(w) == QDiv(RDiv(Angle(w), 10) * RDiv(Angle(w), 10), 200 * WAVEN, AMPL)

\* the breakpoints P and R that a call of SUBCAL uses for regime 4: both
\* start at 0 in every call and JSUBS arrives as 0 (TIMSTR passes its own
\* JSUBS = 0 by value), so the middle branch sets P every time and the third
\* branch never finds JSUBS = 1 and keeps R = 0, P = 0
SUBCAL_P(g, www, dtend) ==
    IF www > BP(g) /\ www <= dtend - BP(g) THEN BP(g) ELSE 0

SUBCAL_R(g, www, dtend) == 0

\* the argument of math.exp in BETAT of regime 4
BETAT4(g, www, dtend) ==
    IF www <= BP(g) THEN HalfWA(www)
    ELSE IF www <= dtend - BP(g)
         THEN LET P == SUBCAL_P(g, www, dtend)
                  Q == www - P
              IN  HalfWA(P) + RDiv(g * Q, TIMSC)
                  - RDiv(AMPL * (CosR(Angle(Q)) - FP4), WAVEN)
    ELSE LET P == SUBCAL_P(g, www, dtend)
             R == SUBCAL_R(g, www, dtend)
             S == www - R
         IN  HalfWA(P) + RDiv(g * (R - P), TIMSC)
             - RDiv(AMPL * (CosR(Angle(R - P)) - FP4), WAVEN)
             + RDiv(g * S, TIMSC) - HalfWA(S)

\* the stretching factor reached a time www into the phase is the math.exp
\* of this
BetaArg(itype, g, www, dtend) ==
    IF itype = 1 THEN RDiv(g * www, TIMSC)
    ELSE IF itype = 2 THEN RDiv(g * (FP4 - Exp(-OverTaus(www))), 10)
    ELSE IF itype = 3 THEN RDiv(g * (Exp(OverTaus(www)) - FP4), 10)
    ELSE BETAT4(g, www, dtend)

\* the body of SUBCAL once TRAP (trap) and the argument of BETAT's math.exp
\* (arg) are known
Subsidence(t, iadv, krr, itype, dtend, trap, arg) ==
    IF iadv = 1
    THEN IF itype \notin {1, 2, 3, 4}
         THEN [exc |-> "UnboundLocalError", s |-> 0, TRINIT |-> TRINIT, SINIT |-> SINIT]
         ELSE IF arg > 7097800
         THEN [exc |-> "OverflowError", s |-> 0, TRINIT |-> TRINIT, SINIT |-> SINIT]
         ELSE IF Exp(arg) = 0 \/ (krr > 0 /\ BETAprev(krr) = 0)
         THEN [exc |-> "ZeroDivisionError", s |-> 0,
               TRINIT |-> IF t = dtend THEN trap ELSE TRINIT, SINIT |-> SINIT]
         ELSE LET inv  == RDiv(FP4 * FP4, Exp(arg))
                  thin == IF krr = 0 THEN FP4 - inv
                          ELSE 2 * FP4 - inv - RDiv(FP4 * 100, BETAprev(krr))
                  SUBS == CONBET * thin + CONTRM * (FP4 \div 2 - trap)
                  km   == RDiv(SUBS, 100)
              IN  [exc |-> "none", s |-> km,
                   TRINIT |-> IF t = dtend THEN trap ELSE TRINIT,
                   SINIT |-> IF t = dtend THEN km ELSE SINIT]
    ELSE [exc |-> "none", s |-> RDiv(CONTRM * (TRINIT - trap), 100) + SINIT,
          TRINIT |-> TRINIT, SINIT |-> SINIT]

\* SUBCAL for the row at time t: the subsidence it stores (km) and the TRINIT
\* and SINIT it leaves; exc is the exception it ends with
SUBCAL(t, iadv, buf, krr, itype, g, dtend) ==
    Subsidence(t, iadv, krr, itype, dtend, TRAP(buf),
               BetaArg(itype, g, IF krr = 0 THEN t ELSE t - DTBEGX(krr), dtend))

\* ------------------------------------------------------------ the program

Raise(e) == pc' = "raised" /\ exc' = e

Called(name) == [hist EXCEPT !.calls = Append(@, name)]

\* TL as the module sets it at import: 125000 m
TL0 == 1250

\* the state of the module after import: the globals of lines 144-163
Fresh ==
    /\ TL = TL0 /\ TIMSC = 0 /\ CONBET = 0 /\ CONTRM = 0
    /\ GP1 = 0 /\ GP2 = 0 /\ GP3 = 0
    /\ AMPL = 10 /\ WAVEN = 10
    /\ SINIT = 0 /\ TRINIT = 0
    /\ K = 1
    /\ DATA = <<>>
    /\ TEM = << <<>>, <<>> >>
    /\ exc = "none"
    /\ BETA1 = 0 /\ KRR = 0 /\ T = 0 /\ DT = 0 /\ DTI = 0
    /\ JGI = 1 /\ JFLAG = 0 /\ IADV = 1
    /\ CI = 1 /\ CJ = 1 /\ CF = <<>>
    /\ file = <<>>
    /\ beta_groups = <<>>
    /\ hist = [calls |-> <<>>, betas |-> <<>>, raw |-> <<>>, pre |-> <<>>, runs |-> <<>>]

\* run(), from its entry to the top of the beta loop
run ==
    /\ pc = "idle"
    /\ K' = 1 /\ AMPL' = 10 /\ WAVEN' = 10 /\ SINIT' = 0 /\ TRINIT' = 0
    /\ IF ~check_cfg
       THEN /\ Raise("AssertionError")
            /\ hist' = [hist EXCEPT !.calls = <<"check_cfg">>, !.betas = <<>>, !.raw = <<>>]
            /\ UNCHANGED <<DATA, TEM, TL, TIMSC, CONBET, CONTRM, GP2, GP3, BETA1>>
       ELSE /\ DATA' = <<>>
            /\ TEM' = << <<>>, <<>> >>
            /\ TL' = calculate_TL.TL
            /\ IF calculate_TL.exc # "none"
               THEN /\ Raise(calculate_TL.exc)
                    /\ hist' = [hist EXCEPT !.calls = <<"check_cfg", "calculate_TL">>,
                                            !.betas = <<>>, !.raw = <<>>]
                    /\ UNCHANGED <<TIMSC, CONBET, CONTRM, GP2, GP3, BETA1>>
               ELSE /\ hist' = [hist EXCEPT !.calls = <<"check_cfg", "calculate_TL",
                                                        "nondimensionalise_parameters",
                                                        "setup_constants">>,
                                            !.betas = <<>>, !.raw = <<>>]
                    /\ TIMSC' = TIMSCof(TLroot)
                    /\ IF setup_exc # "none"
                       THEN /\ Raise(setup_exc)
                            /\ CONBET' = IF Loaded /\ LoadRho = 0 THEN CONBET ELSE CONBETof
                            /\ CONTRM' = IF Loaded /\ LoadRho = 0 THEN CONTRM
                                          ELSE CONTRMof(TLroot)
                            /\ UNCHANGED <<GP2, GP3, BETA1>>
                       ELSE /\ CONBET' = CONBETof
                            /\ CONTRM' = CONTRMof(TLroot)
                            /\ GP2' = setup_GP2(TIMSCof(TLroot))
                            /\ GP3' = setup_GP3
                            /\ BETA1' = BETMIN
                            /\ pc' = "beta"
                            /\ exc' = exc
    /\ UNCHANGED <<cfg, ts, GP1, KRR, T, DT, DTI, JGI, JFLAG, IADV, CI, CJ, CF, file, beta_groups>>

\* TIMSTR from its entry to the top of its time loop, called for episode krr
\* with strain-rate magnitude g
TIMSTR(krr, g) ==
    IF GMAXof(g) = 0
    THEN /\ Raise("ZeroDivisionError")
         /\ UNCHANGED <<T, DT, DTI, JGI, JFLAG, IADV, DATA, TEM>>
    ELSE IF krr = 0 /\ K > NDIM2
    THEN /\ Raise("IndexError")
         /\ T' = 0 /\ DT' = DTIof(g) /\ DTI' = DTIof(g)
         /\ JGI' = 1 /\ JFLAG' = 0 /\ IADV' = 1
         /\ UNCHANGED <<DATA, TEM>>
    ELSE /\ pc' = "step"
         /\ exc' = exc
         /\ T' = IF krr = 0 THEN 0 ELSE DTBEGX(krr)
         /\ DT' = DTIof(g)
         /\ DTI' = DTIof(g)
         /\ JGI' = 1 /\ JFLAG' = 0 /\ IADV' = 1
         /\ DATA' = IF krr = 0
                    THEN PutRow(DATA, K,
                           [t |-> Val(0), s |-> Val(0),
                            h |-> IF IHFLW = 1 THEN Val(FP4) ELSE Row(DATA, K).h,
                            g |-> IF IHFLW = 1
                                  THEN StrainFirst(ITYPEArg(krr), g, 0, DTENDArg(krr))
                                  ELSE Row(DATA, K).g])
                    ELSE DATA
         /\ TEM' = IF krr = 0 THEN <<Conductive, Conductive>> ELSE TEM

\* the top of the beta loop: set_dless_constants(BETA1); when the loop of
\* ITYPE1 = 4 fails on AMPL = 0, GP1 and AMPL have been assigned
run_beta ==
    /\ pc = "beta"
    /\ hist' = Called("set_dless_constants")
    /\ IF dless_exc(BETA1) # "none"
       THEN /\ Raise(dless_exc(BETA1))
            /\ GP1' = IF ITYPE1 = 4 /\ BETA1 > 0 /\ DTEND1 # 0 THEN CG(BETA1) ELSE GP1
            /\ AMPL' = IF ITYPE1 = 4 /\ BETA1 > 0 /\ DTEND1 # 0 THEN AMPLof(BETA1) ELSE AMPL
            /\ WAVEN' = WAVEN
       ELSE /\ GP1' = set_GP1(BETA1)
            /\ AMPL' = set_AMPL(BETA1)
            /\ WAVEN' = set_WAVEN(BETA1)
            /\ pc' = "first"
            /\ exc' = exc
    /\ UNCHANGED <<cfg, ts, TL, TIMSC, CONBET, CONTRM, GP2, GP3, SINIT, TRINIT, K, DATA, TEM, BETA1, KRR, T, DT, DTI,
                   JGI, JFLAG, IADV, CI, CJ, CF, file, beta_groups>>

\* the first TIMSTR call of a beta value, with the GP1 that
\* set_dless_constants has left
run_first ==
    /\ pc = "first"
    /\ KRR' = 0
    /\ hist' = [hist EXCEPT !.calls = Append(@, "TIMSTR"), !.betas = Append(@, BETA1)]
    /\ TIMSTR(0, GP1)
    /\ UNCHANGED <<cfg, ts, TL, TIMSC, CONBET, CONTRM, GP1, GP2, GP3, AMPL, WAVEN, SINIT, TRINIT, K, BETA1, CI, CJ, CF,
                   file, beta_groups>>

\* the step DT = x - t that is to end at x (DTEND or DTHALT).  The difference
\* of two doubles is exact when t lies within a factor 2 of x, and then the
\* sum t + DT of the next pass is x; otherwise the difference is rounded and
\* the sum can miss x by a rounding error, held here as one unit of the time
\* grid
Clipped(x, t) ==
    IF t = 0 \/ x = 0 \/ (x <= 2 * t /\ t <= 2 * x) THEN {x - t}
    ELSE {x - t - 1, x - t, x - t + 1}

\* the end of one pass of the time loop: with the new temperatures tem and the
\* new time t, append the row if rec (sub is what SUBCAL returns for it, h and
\* g its heat flow and strain rate) and choose the next step (lines 601-662)
Record(tem, t, rec, sub, h, g, dtend, dthalt) ==
    IF ~Row(DATA, K).t.set
    THEN /\ Raise("TypeError")
         /\ TEM' = tem /\ T' = t /\ DT' = DTI /\ JGI' = 3 - JGI
         /\ UNCHANGED <<JFLAG, IADV, K, DATA, SINIT, TRINIT>>
    ELSE IF rec /\ K + 1 > NDIM2
    THEN /\ Raise("IndexError")
         /\ TEM' = tem /\ T' = t /\ DT' = DTI /\ JGI' = 3 - JGI /\ K' = K + 1
         /\ UNCHANGED <<JFLAG, IADV, DATA, SINIT, TRINIT>>
    ELSE IF rec /\ sub.exc # "none"
    THEN /\ Raise(sub.exc)
         /\ TEM' = tem /\ T' = t /\ DT' = DTI /\ JGI' = 3 - JGI /\ K' = K + 1
         /\ DATA' = PutRow(DATA, K + 1, [UnsetRow EXCEPT !.t = Val(t)])
         /\ TRINIT' = sub.TRINIT
         /\ UNCHANGED <<JFLAG, IADV, SINIT>>
    ELSE /\ TEM' = tem
         /\ T' = t
         /\ JGI' = 3 - JGI
         /\ K' = IF rec THEN K + 1 ELSE K
         /\ DATA' = IF rec
                    THEN PutRow(DATA, K + 1, [t |-> Val(t), s |-> Val(sub.s), h |-> h, g |-> g])
                    ELSE DATA
         /\ SINIT' = IF rec THEN sub.SINIT ELSE SINIT
         /\ TRINIT' = IF rec THEN sub.TRINIT ELSE TRINIT
         /\ exc' = exc
         /\ IF t + DTI <= dtend
            THEN DT' = DTI /\ pc' = "step" /\ UNCHANGED <<JFLAG, IADV>>
            ELSE IF JFLAG = 0
            THEN DT' \in Clipped(dtend, t) /\ JFLAG' = 1 /\ pc' = "step" /\ UNCHANGED IADV
            ELSE IF t + DTI < dthalt /\ JFLAG = 1
            THEN DT' = DTI /\ IADV' = 0 /\ pc' = "step" /\ UNCHANGED JFLAG
            ELSE IF t + DTI >= dthalt /\ JFLAG # 2
            THEN /\ DT' \in Clipped(dthalt, t)
                 /\ JFLAG' = 2
                 /\ pc' = IF DT' # 0 THEN "step" ELSE "ret"
                 /\ UNCHANGED IADV
            ELSE DT' = DTI /\ pc' = "ret" /\ UNCHANGED <<JFLAG, IADV>>

\* the middle of one pass: the time advanced to t and the buffers swapped,
\* whether a row is due, and what goes into it (lines 581-631)
Advance(tem, t, itype, g, dtend, dthalt) ==
    \E rec \in {t >= Row(DATA, K).t.v + DTST \/ t = dthalt \/ t = dtend} :
    \E sub \in {IF rec THEN SUBCAL(t, IADV, tem[3 - JGI], KRR, itype, g, dtend)
                 ELSE [exc |-> "none", s |-> 0, TRINIT |-> TRINIT, SINIT |-> SINIT]} :
        Record(tem, t, rec, sub,
               IF IHFLW = 1 THEN Val(tem[3 - JGI][JN] * (FP4 \div DZ)) ELSE Unset,
               IF IHFLW = 1 THEN StrainRow(itype, g, t, dtend, IADV) ELSE Unset,
               dtend, dthalt)

\* the start of one pass: the finite-difference update of the write buffer
\* JGF = 3 - JGI (lines 546-579); own says that the advection term reads row
\* TEM[JGI] instead of TEM[JGI-1]
Update(itype, g, dtend, dthalt, own) ==
    IF (own /\ Buf(JGI + 1) = <<>>) \/ Buf(JGI) = <<>> \/ Buf(3 - JGI) = <<>>
    THEN \* an operand of the update is None
         /\ Raise("TypeError")
         /\ UNCHANGED <<T, DT, JGI, JFLAG, IADV, K, DATA, TEM, SINIT, TRINIT>>
    ELSE \E tem \in {[TEM EXCEPT ![3 - JGI] =
                          FDStep(TEM[3 - JGI], TEM[JGI], DT,
                                 IF IADV = 1 THEN AdvRate(itype, KRR, g, T, dtend) ELSE 0,
                                 own)]} :
             Advance(tem, Held(T + DT), itype, g, dtend, dthalt)

\* one pass of the time loop of TIMSTR: the finite-difference update, the
\* buffer swap, the row it may append (with SUBCAL) and the choice of the
\* next step
TIMSTR_step ==
    /\ pc = "step"
    /\ Update(ITYPEArg(KRR), GArg(KRR), DTENDArg(KRR), DTHALT(KRR),
              IADV = 1 /\ ITYPEArg(KRR) = 2 /\ KRR > 0)
    /\ UNCHANGED <<cfg, ts, TL, TIMSC, CONBET, CONTRM, GP1, GP2, GP3, AMPL, WAVEN, BETA1, KRR,
                   DTI, CI, CJ, CF, file, beta_groups, hist>>

\* whether run() calls TIMSTR again for the beta value in hand
MoreEpisodes == (KRR = 0 /\ IRIFT >= 2) \/ (KRR = 1 /\ IRIFT >= 3)

\* the second or third TIMSTR call of a beta value; BETA12 is assigned only
\* when IRIFT = 3
run_episode ==
    /\ pc = "ret"
    /\ MoreEpisodes
    /\ IF KRR = 1 /\ IRIFT # 3
       THEN /\ Raise("UnboundLocalError")
            /\ UNCHANGED <<KRR, T, DT, DTI, JGI, JFLAG, IADV, DATA, TEM, hist>>
       ELSE /\ KRR' = KRR + 1
            /\ hist' = Called("TIMSTR")
            /\ TIMSTR(KRR + 1, GArg(KRR + 1))
    /\ UNCHANGED <<cfg, ts, TL, TIMSC, CONBET, CONTRM, GP1, GP2, GP3, AMPL, WAVEN, SINIT, TRINIT, K, BETA1, CI, CJ, CF,
                   file, beta_groups>>

\* BETA1 = BETA1 + BETINC, and the test that sends the loop round again
NextBeta(b) == b + BETINC

\* the test written with < in place of <=
SweepOn_strict(b) == b < BETMAX

SweepOn(b) == b <= BETMAX

\* the sentinel row's K without the second increment
AfterSentinel_once(k) == k + 1

\* K after the two increments around the sentinel row (lines 960 and 963)
AfterSentinel(k) == k + 2

\* the bottom of the beta loop: step BETA1 and either insert the sentinel row
\* and go round again or leave the loop
run_sweep ==
    /\ pc = "ret"
    /\ ~MoreEpisodes
    /\ BETA1' = NextBeta(BETA1)
    /\ IF SweepOn(NextBeta(BETA1))
       THEN IF K + 1 > NDIM2
            THEN /\ Raise("IndexError")
                 /\ K' = K + 1
                 /\ UNCHANGED DATA
            ELSE /\ K' = AfterSentinel(K)
                 /\ DATA' = PutRow(DATA, K + 1,
                                   [Row(DATA, K + 1) EXCEPT !.t = Unset, !.s = Unset])
                 /\ pc' = "beta"
                 /\ exc' = exc
       ELSE /\ pc' = "final"
            /\ exc' = exc
            /\ UNCHANGED <<K, DATA>>
    /\ UNCHANGED <<cfg, ts, TL, TIMSC, CONBET, CONTRM, GP1, GP2, GP3, AMPL, WAVEN, SINIT, TRINIT, TEM, KRR, T, DT, DTI,
                   JGI, JFLAG, IADV, CI, CJ, CF, file, beta_groups, hist>>

\* ------------------------------------------------------------ finalisation

\* the conversion of the time without its + TBEG1
Age_from_zero(t) == -t

\* -DATA[0][I-1]*TIMSC + TBEG1, DATA[2][I-1]*CONDTY, DATA[3][I-1]/TIMSC
Age(t) == TBEG1 * (FP4 \div 10) - t
HeatFlow(h) == RDiv(h * CONDTY, 100)
StrainRate(g) == RDiv(g * FP4, TIMSC)

\* whether the conversion of row r meets a None operand
DimFails(r) == r.t.set /\ IHFLW = 1 /\ (~r.h.set \/ ~r.g.set)

\* one pass of the loop of lines 969-974 over row r
Dimensionalise(r) ==
    IF ~r.t.set THEN r
    ELSE IF IHFLW # 1 THEN [r EXCEPT !.t = Val(Age(r.t.v))]
    ELSE IF ~r.h.set THEN [r EXCEPT !.t = Val(Age(r.t.v))]
    ELSE IF ~r.g.set THEN [r EXCEPT !.t = Val(Age(r.t.v)), !.h = Val(HeatFlow(r.h.v))]
    ELSE [r EXCEPT !.t = Val(Age(r.t.v)), !.h = Val(HeatFlow(r.h.v)),
                   !.g = Val(StrainRate(r.g.v))]

\* the rows the loop fails on
FailRows == {i \in 1..K : DimFails(Row(DATA, i))}
FirstFail == CHOOSE i \in FailRows : \A j \in FailRows : i <= j

\* the loop over rows 1..K, once, after the beta loop
run_finalise ==
    /\ pc = "final"
    /\ hist' = [hist EXCEPT !.calls = Append(@, "dimensionalise"), !.raw = DATA]
    /\ IF FailRows # {}
       THEN /\ Raise("TypeError")
            /\ DATA' = [i \in 1..K |-> IF i <= FirstFail THEN Dimensionalise(Row(DATA, i))
                                       ELSE Row(DATA, i)]
       ELSE /\ DATA' = [i \in 1..K |-> Dimensionalise(Row(DATA, i))]
            /\ pc' = IF ICOMP = 1 THEN "compac" ELSE "write"
            /\ exc' = exc
    /\ UNCHANGED <<cfg, ts, TL, TIMSC, CONBET, CONTRM, GP1, GP2, GP3, AMPL, WAVEN, SINIT, TRINIT, K, TEM, BETA1, KRR, T,
                   DT, DTI, JGI, JFLAG, IADV, CI, CJ, CF, file, beta_groups>>

\* ------------------------------------------------------------------ COMPAC

MAXIT == 30
FLEN == 30

\* DLOB from the mantle density at 0 degrees instead of RHOA
DLOB_cold == RHOM - RHOS

DLOB == RHOA - RHOS
\* PHI0*CONST*(RHOS-RHOW) (1e-5) and PHI0*(RHOS-RHOW) (1e-4)
ELOB == PHI0 * CONST * (RHOS - RHOW)
FLOB == PHI0 * (RHOS - RHOW)

\* F[0] = DATA[1][I-1]*ALOB with ALOB = RHOA/(RHOA-RHOS)
F0(S) == QDiv(S, DLOB, RHOA)

\* -F/CONST, the argument of math.exp, on the 1e-6 grid
EArg(F) == -QDiv(F, CONST, 100)

\* X1 and X2 of one Newton-Raphson iteration from the iterate F for the row
\* value S (both on the centimetre grid).  With E = exp(-F/CONST),
\*   X1 = F*DLOB - S*RHOA + ELOB*(1-E),   X2 = DLOB + FLOB*E;
\* above E = exp(2) numerator and denominator are both divided by E, which
\* leaves X1/X2 as it is.  X1 is on the 1e-7 grid, X2 on the 1e-4 grid
Direct(F) == EArg(F) <= 2 * M6

NewtonX1(F, S) ==
    IF FLOB = 0 THEN F * DLOB - S * RHOA
    ELSE IF Direct(F)
    THEN F * DLOB - S * RHOA + Mul6(100 * ELOB, M6 - Exp6(EArg(F)))
    ELSE Mul6(F * DLOB - S * RHOA + 100 * ELOB, Exp6(-EArg(F))) - 100 * ELOB

NewtonX2(F) ==
    IF FLOB = 0 THEN 100 * DLOB
    ELSE IF Direct(F) THEN 100 * DLOB + Mul6(FLOB, Exp6(EArg(F)))
    ELSE Mul6(100 * DLOB, Exp6(-EArg(F))) + FLOB

\* the exception the iteration from F ends with: math.exp overflows above
\* 709.78, and X1/X2 divides
NewtonExc(F) ==
    IF EArg(F) > 709780000 THEN "OverflowError"
    ELSE IF NewtonX2(F) = 0 THEN "ZeroDivisionError"
    ELSE "none"

\* F[J] = F[J-1] - (X1/X2)
Newton(F, S) == F - QDiv(NewtonX1(F, S), NewtonX2(F), 100)

\* COMPAC(K), from its entry to the top of its row loop
COMPAC ==
    /\ pc = "compac"
    /\ hist' = [hist EXCEPT !.calls = Append(@, "COMPAC"), !.pre = DATA]
    /\ IF DLOB = 0
       THEN Raise("ZeroDivisionError") /\ UNCHANGED CI
       ELSE CI' = 1 /\ pc' = "crow" /\ exc' = exc
    /\ UNCHANGED <<cfg, ts, TL, TIMSC, CONBET, CONTRM, GP1, GP2, GP3, AMPL, WAVEN, SINIT, TRINIT, K, DATA, TEM, BETA1, KRR,
                   T, DT, DTI, JGI, JFLAG, IADV, CJ, CF, file, beta_groups>>

\* the top of the row loop: leave COMPAC after row K, skip a row whose time is
\* None, else start the iteration with J = 1 and F[0]
COMPAC_row ==
    /\ pc = "crow"
    /\ IF CI > K
       THEN pc' = "write" /\ exc' = exc /\ UNCHANGED <<CI, CJ, CF>>
       ELSE IF ~Row(DATA, CI).t.set
       THEN pc' = "crow" /\ exc' = exc /\ CI' = CI + 1 /\ UNCHANGED <<CJ, CF>>
       ELSE IF ~Row(DATA, CI).s.set \/ CONST = 0
       THEN /\ Raise(IF ~Row(DATA, CI).s.set THEN "TypeError" ELSE "ZeroDivisionError")
            /\ CJ' = 1
            /\ CF' = IF Row(DATA, CI).s.set THEN <<F0(Row(DATA, CI).s.v)>> ELSE <<>>
            /\ UNCHANGED CI
       ELSE /\ pc' = "newton"
            /\ exc' = exc
            /\ CJ' = 1
            /\ CF' = <<F0(Row(DATA, CI).s.v)>>
            /\ UNCHANGED CI
    /\ UNCHANGED <<cfg, ts, TL, TIMSC, CONBET, CONTRM, GP1, GP2, GP3, AMPL, WAVEN, SINIT, TRINIT, K, DATA, TEM, BETA1, KRR,
                   T, DT, DTI, JGI, JFLAG, IADV, file, beta_groups, hist>>

\* one pass of the Newton-Raphson loop: F[J] from F[J-1], and on leaving the
\* loop the store DATA[1][I-1] = F[J].  CF holds F[0..J-1]; F has FLEN slots
COMPAC_newton ==
    /\ pc = "newton"
    /\ LET Fp == CF[CJ]
           S  == Row(DATA, CI).s.v
           Fj == Newton(Fp, S)
       IN  IF NewtonExc(Fp) # "none"
           THEN Raise(NewtonExc(Fp)) /\ UNCHANGED <<CI, CJ, CF, DATA>>
           ELSE IF Abs(Fj - Fp) > 1
           THEN IF CJ + 1 >= MAXIT
                THEN \* break with J = 30, then F[J] is read
                     IF CJ + 1 >= FLEN
                     THEN /\ Raise("IndexError")
                          /\ CJ' = CJ + 1
                          /\ CF' = Append(CF, Fj)
                          /\ UNCHANGED <<CI, DATA>>
                     ELSE /\ pc' = "crow"
                          /\ exc' = exc
                          /\ CJ' = CJ + 1
                          /\ CF' = Append(CF, Fj)
                          /\ DATA' = [DATA EXCEPT ![CI].s = Unset]
                          /\ CI' = CI + 1
                ELSE /\ pc' = "newton"
                     /\ exc' = exc
                     /\ CJ' = CJ + 1
                     /\ CF' = Append(CF, Fj)
                     /\ UNCHANGED <<CI, DATA>>
           ELSE /\ pc' = "crow"
                /\ exc' = exc
                /\ CF' = Append(CF, Fj)
                /\ DATA' = [DATA EXCEPT ![CI].s = Val(Fj)]
                /\ CI' = CI + 1
                /\ UNCHANGED CJ
    /\ UNCHANGED <<cfg, ts, TL, TIMSC, CONBET, CONTRM, GP1, GP2, GP3, AMPL, WAVEN, SINIT, TRINIT, K, TEM, BETA1, KRR,
                   T, DT, DTI, JGI, JFLAG, IADV, file, beta_groups, hist>>

\* ------------------------------------------------------------------- WRITE

\* round(x, 4) of a cell on a grid div times finer than the file's, after
\* None has become -999999.
FileCell(c, div) == IF c.set THEN RDiv(c.v, div) ELSE UNSETVAL

FileRow(r) == <<FileCell(r.t, 10), FileCell(r.s, 100), FileCell(r.h, 10), FileCell(r.g, 10)>>

\* the cell WRITE leaves in the table: None replaced by -999999. (held as on
\* the file grid)
Filled(c) == IF c.set THEN c ELSE Val(UNSETVAL)

WRITE ==
    /\ pc = "write"
    /\ file' = [i \in 1..K |-> FileRow(Row(DATA, i))]
    /\ DATA' = [i \in 1..K |-> [t |-> Filled(Row(DATA, i).t), s |-> Filled(Row(DATA, i).s),
                                h |-> Filled(Row(DATA, i).h), g |-> Filled(Row(DATA, i).g)]]
    /\ hist' = Called("WRITE")
    /\ pc' = "done"
    /\ UNCHANGED <<cfg, ts, TL, TIMSC, CONBET, CONTRM, GP1, GP2, GP3, AMPL, WAVEN, SINIT, TRINIT, K, TEM, exc, BETA1, KRR,
                   T, DT, DTI, JGI, JFLAG, IADV, CI, CJ, CF, beta_groups>>

\* ---------------------------------------------- read_rift_subsidence_output

\* the loop over the lines of the file: a line whose age is below 0.0 opens
\* a group, any other line joins the last group with its subsidence in metres
RECURSIVE ReadLines(_, _, _)
ReadLines(lines, i, groups) ==
    IF i > Len(lines) THEN groups
    ELSE IF lines[i][1] < 0
    THEN ReadLines(lines, i + 1, Append(groups, << <<>>, <<>> >>))
    ELSE ReadLines(lines, i + 1,
                   [groups EXCEPT ![Len(groups)] =
                        <<Append(@[1], lines[i][1]), Append(@[2], lines[i][2] * 1000)>>])

\* the caller's self.rift_subsidence_output = bs.read_rift_subsidence_output(...)
\* and self.ready_to_plot = True, which follow rs.run() in __init__ and in run()
read_rift_subsidence_output ==
    /\ pc = "done"
    /\ beta_groups' = ReadLines(file, 1, << << <<>>, <<>> >> >>)
    /\ ts' = [ts EXCEPT !.ready_to_plot = TRUE]
    /\ pc' = "read"
    /\ UNCHANGED <<cfg, TL, TIMSC, CONBET, CONTRM, GP1, GP2, GP3, AMPL, WAVEN, SINIT, TRINIT, K, DATA, TEM, exc, BETA1,
                   KRR, T, DT, DTI, JGI, JFLAG, IADV, CI, CJ, CF, file, hist>>

\* ------------------------------------------------------------ parameter sets

\* a one-episode configuration: 4 Myr of uniform stretching from 10 Ma, then
\* cooling to the present, for beta = 1.5 and 2.0
Base ==
    [IRIFT |-> 1, TC |-> 300,
     TBEG1 |-> 100, TEND1 |-> 60, TBEG2 |-> 40, TEND2 |-> 20, TBEG3 |-> 10, TEND3 |-> 0,
     TSTOP |-> 0,
     BETMIN |-> 150, BETMAX |-> 200, BETINC |-> 50, BETA2 |-> 120, BETA3 |-> 110,
     ITYPE1 |-> 1, ITYPE2 |-> 1, ITYPE3 |-> 1,
     ILOAD |-> 1, ICOMP |-> 0, RHOS |-> 260, PHI0 |-> 60, CONST |-> 20]

\* the configurations of the single-run specification
CfgSet ==
    {[Base EXCEPT !.IRIFT = n, !.ICOMP = c] : n \in {1, 2, 3}, c \in {0, 1}}
    \cup {[Base EXCEPT !.TEND1 = 80, !.TSTOP = 70, !.BETMIN = b, !.BETMAX = m, !.BETINC = i] :
             b \in {150, 250}, m \in {150, 250}, i \in {50, 70}}
    \cup {[Base EXCEPT !.BETMAX = 150, !.TSTOP = t] : t \in {80, 30, -30}}
    \cup {[Base EXCEPT !.TEND1 = e, !.TC = c] : e \in {100, 120}, c \in {100, 300}}
    \cup {[Base EXCEPT !.IRIFT = n, !.TEND2 = e2, !.TEND3 = e3, !.BETMAX = 150] :
             n \in {1, 2, 3}, e2 \in {20, 40}, e3 \in {0, 10}}
    \cup {[Base EXCEPT !.TC = c, !.BETMAX = 150] : c \in {100, 140, 200}}
    \cup {[Base EXCEPT !.IRIFT = 2, !.BETMAX = 150, !.ITYPE1 = a, !.ITYPE2 = b] :
             a \in {1, 2, 3}, b \in {1, 2, 3, 4}}
    \cup {[Base EXCEPT !.BETMAX = 150, !.ILOAD = l] : l \in {0, 1, 2}}
    \cup {[Base EXCEPT !.TC = 350, !.BETMIN = 110, !.BETMAX = 110, !.TSTOP = 50]}
    \cup {[Base EXCEPT !.TEND1 = 99, !.TSTOP = 80, !.BETMIN = 101, !.BETMAX = 101]}
    \cup {[Base EXCEPT !.ITYPE1 = 4, !.BETMAX = 150]}
    \cup {[Base EXCEPT !.BETMIN = 50, !.BETMAX = 50]}
    \cup {[Base EXCEPT !.BETINC = -60]}

\* the configurations of the re-entry specification: two episodes, the second
\* one uniform or sinusoidal, without and with the compaction correction
ReCfgSet ==
    {[Base EXCEPT !.IRIFT = 2, !.BETMAX = 150, !.ITYPE2 = b, !.ICOMP = c] : b \in {1, 4}, c \in {0, 1}}

\* the number of run() calls of one process
MaxRuns == 3

\* the run in hand, once it has ended, as an entry of hist.runs
Finished == pc \in {"done", "read", "raised"}
ThisRun == [cfg |-> cfg, exc |-> exc, out |-> IF exc = "none" THEN file ELSE <<>>]

\* a caller that reads another configuration and calls run() again in the same
\* process, as TectonicSubsidence does for every well it is constructed for
rerun ==
    /\ Finished
    /\ Len(hist.runs) + 1 < MaxRuns
    /\ cfg' \in ReCfgSet
    /\ hist' = [hist EXCEPT !.runs = Append(@, ThisRun)]
    /\ pc' = "idle"
    /\ exc' = "none"
    /\ UNCHANGED <<ts, TL, TIMSC, CONBET, CONTRM, GP1, GP2, GP3, AMPL, WAVEN, SINIT, TRINIT, K, DATA, TEM, BETA1, KRR, T,
                   DT, DTI, JGI, JFLAG, IADV, CI, CJ, CF, file, beta_groups>>

\* the tables COMPAC is applied to: two data rows around a sentinel row, with
\* subsidences (cm) from SSet
SSet == {0, 50000, 100000, 150000}

CompacCfgSet ==
    {[Base EXCEPT !.ICOMP = 1, !.PHI0 = p, !.CONST = c] : p \in {0, 60}, c \in {5, 20}}
    \cup {[Base EXCEPT !.ICOMP = 1, !.RHOS = 315, !.PHI0 = 90, !.CONST = 50]}

DataRow(a, S) == [t |-> Val(a * FP4), s |-> Val(S), h |-> Val(CONDTY * 10), g |-> Val(0)]

\* how often COMPAC is applied to one table
MaxApply == 2

Applied == Cardinality({i \in DOMAIN hist.calls : hist.calls[i] = "COMPAC"})

\* COMPAC called again on the table it has left
reapply ==
    /\ pc = "write"
    /\ Applied < MaxApply
    /\ pc' = "compac"
    /\ UNCHANGED <<cfg, ts, TL, TIMSC, CONBET, CONTRM, GP1, GP2, GP3, AMPL, WAVEN, SINIT, TRINIT, K, DATA, TEM, exc, BETA1,
                   KRR, T, DT, DTI, JGI, JFLAG, IADV, CI, CJ, CF, file, beta_groups, hist>>

\* ------------------------------------------------------- TectonicSubsidence

\* np.arange(start, stop, step): ceil((stop - start)/step) values from start,
\* stop itself left out, and no value when that count is not positive
ArangeLen(start, stop, step) ==
    IF step = 0 THEN 0
    ELSE IF (stop - start) * step <= 0 THEN 0
    ELSE (Abs(stop - start) + Abs(step) - 1) \div Abs(step)

Arange(start, stop, step) == [i \in 1..ArangeLen(start, stop, step) |-> start + (i - 1) * step]

\* the well the object is made for: the ages (1e-3 Myr) and the tectonic
\* subsidence (1e-3 m) of its decompacted sections, the dynamic topography
\* depth at each age, and the offset argument
ages == <<2000, 7000, 12000>>
tectonic_subsidences == <<500000, 300000, 0>>
dynamic_topography_depths == <<0, 10000, 0>>
offset == 0

\* np.flip of a list
Flip(s) == [i \in 1..Len(s) |-> s[Len(s) + 1 - i]]

\* np.interp(x, xp, fp) for increasing xp: the end values outside xp, the
\* straight line between the two neighbours inside
Interp(x, xp, fp) ==
    IF x <= xp[1] THEN fp[1]
    ELSE IF x >= xp[Len(xp)] THEN fp[Len(xp)]
    ELSE LET i == CHOOSE j \in 1..(Len(xp) - 1) : xp[j] <= x /\ x < xp[j + 1]
         IN  fp[i] + QDiv(fp[i + 1] - fp[i], xp[i + 1] - xp[i], x - xp[i])

\* bs.get_residuals: for every beta group, the well's subsidence less the
\* dynamic topography, the model's subsidence at the well's ages and the offset
get_residuals_of(rift_subsidence_output) ==
    [b \in 1..Len(rift_subsidence_output) |->
        [a \in 1..Len(ages) |->
            tectonic_subsidences[a] - dynamic_topography_depths[a]
            - Interp(ages[a], Flip(rift_subsidence_output[b][1]), Flip(rift_subsidence_output[b][2]))
            - offset]]

\* the object as __init__ leaves it before any run: ready_to_plot False, no
\* residuals attribute, BETAs from the configured range; ret, exc and calls
\* record what the methods called on it returned and how they ended
NewTS ==
    [ready_to_plot |-> FALSE,
     residuals     |-> [set |-> FALSE, v |-> <<>>],
     BETAs         |-> Arange(cfg.BETMIN, cfg.BETMAX, cfg.BETINC),
     ret           |-> [set |-> FALSE, v |-> <<>>],
     exc           |-> "none",
     calls         |-> <<>>]

Init == Fresh /\ pc = "idle" /\ cfg \in CfgSet /\ ts = NewTS

Next ==
    \/ run
    \/ run_beta
    \/ run_first
    \/ TIMSTR_step
    \/ run_episode
    \/ run_sweep
    \/ run_finalise
    \/ COMPAC
    \/ COMPAC_row
    \/ COMPAC_newton
    \/ WRITE
    \/ read_rift_subsidence_output

Spec == Init /\ [][Next]_vars

\* the beta loop of run() with the TIMSTR calls in it
BetaLoop == run_beta \/ run_first \/ TIMSTR_step \/ run_episode \/ run_sweep

\* a run() that is inside its beta loop is taken on: the interpreter executes
\* the next statement, nothing stops the process from outside
SpecLive == Spec /\ WF_vars(BetaLoop)

InitReentry == Fresh /\ pc = "idle" /\ cfg \in ReCfgSet /\ ts = NewTS

NextReentry == Next \/ rerun

SpecReentry == InitReentry /\ [][NextReentry]_vars

\* the number of method calls made on one object
MaxCalls == 2

\* the number of rs.run() calls made for one object
MaxTSRuns == 2

\* the configurations of the wells a TectonicSubsidence object is run for
TSCfgSet ==
    {Base, [Base EXCEPT !.BETMAX = 150], [Base EXCEPT !.IRIFT = 2, !.BETMAX = 150, !.ICOMP = 1]}

\* the caller is between two rs.run() calls: constructed with init_run False,
\* or back from a run whose output it has read
AtRest == pc \in {"made", "read"}

\* what get_residuals() does once ready_to_plot holds: the residuals attribute
\* if the object has one, the residuals of the output it holds otherwise
Residuals == IF ts.residuals.set THEN ts.residuals.v ELSE get_residuals_of(beta_groups)

\* the guard the three methods open with: run() is called by its bare name,
\* which the module does not define
NotReady(name) ==
    /\ ~ts.ready_to_plot
    /\ ts' = [ts EXCEPT !.calls = Append(@, name), !.exc = "NameError", !.ret = [set |-> FALSE, v |-> <<>>]]

\* TectonicSubsidence.get_residuals()
ts_get_residuals ==
    /\ AtRest
    /\ Len(ts.calls) < MaxCalls
    /\ \/ NotReady("get_residuals")
       \/ /\ ts.ready_to_plot
          /\ ts' = [ts EXCEPT !.calls = Append(@, "get_residuals"), !.exc = "none",
                              !.ret = [set |-> TRUE, v |-> Residuals]]
    /\ UNCHANGED <<cfg, TL, TIMSC, CONBET, CONTRM, GP1, GP2, GP3, AMPL, WAVEN, SINIT, TRINIT, K, DATA, TEM, pc, exc,
                   BETA1, KRR, T, DT, DTI, JGI, JFLAG, IADV, CI, CJ, CF, file, beta_groups, hist>>

\* TectonicSubsidence.plot_residual(ax, index): the residuals are stored on the
\* object, then residuals[index] and BETAs[index] are drawn
ts_plot_residual ==
    /\ AtRest
    /\ Len(ts.calls) < MaxCalls
    /\ \/ NotReady("plot_residual")
       \/ /\ ts.ready_to_plot
          /\ \E index \in 1..2 :
                ts' = [ts EXCEPT !.calls = Append(@, "plot_residual"),
                                 !.residuals = [set |-> TRUE, v |-> Residuals],
                                 !.ret = [set |-> FALSE, v |-> <<>>],
                                 !.exc = IF index > Len(Residuals) \/ index > Len(ts.BETAs)
                                         THEN "IndexError" ELSE "none"]
    /\ UNCHANGED <<cfg, TL, TIMSC, CONBET, CONTRM, GP1, GP2, GP3, AMPL, WAVEN, SINIT, TRINIT, K, DATA, TEM, pc, exc,
                   BETA1, KRR, T, DT, DTI, JGI, JFLAG, IADV, CI, CJ, CF, file, beta_groups, hist>>

\* TectonicSubsidence.plot_rift_subsidence(ax, index): the group
\* rift_subsidence_output[index] is drawn with the label BETAs[index]
ts_plot_rift_subsidence ==
    /\ AtRest
    /\ Len(ts.calls) < MaxCalls
    /\ \/ NotReady("plot_rift_subsidence")
       \/ /\ ts.ready_to_plot
          /\ \E index \in 1..2 :
                ts' = [ts EXCEPT !.calls = Append(@, "plot_rift_subsidence"),
                                 !.ret = [set |-> FALSE, v |-> <<>>],
                                 !.exc = IF index > Len(beta_groups) \/ index > Len(ts.BETAs)
                                         THEN "IndexError" ELSE "none"]
    /\ UNCHANGED <<cfg, TL, TIMSC, CONBET, CONTRM, GP1, GP2, GP3, AMPL, WAVEN, SINIT, TRINIT, K, DATA, TEM, pc, exc,
                   BETA1, KRR, T, DT, DTI, JGI, JFLAG, IADV, CI, CJ, CF, file, beta_groups, hist>>

\* TectonicSubsidence.run(): rs.run() for the configuration the module holds
\* now, then the output is read and ready_to_plot set (the steps of run() to
\* read_rift_subsidence_output)
ts_run ==
    /\ AtRest
    /\ pc = "made" \/ Len(hist.runs) + 1 < MaxTSRuns
    /\ cfg' \in TSCfgSet
    /\ hist' = [hist EXCEPT !.runs = IF pc = "made" THEN @ ELSE Append(@, ThisRun)]
    /\ pc' = "idle"
    /\ exc' = "none"
    /\ UNCHANGED <<ts, TL, TIMSC, CONBET, CONTRM, GP1, GP2, GP3, AMPL, WAVEN, SINIT, TRINIT, K, DATA, TEM, BETA1, KRR,
                   T, DT, DTI, JGI, JFLAG, IADV, CI, CJ, CF, file, beta_groups>>

\* an object made with init_run True (the constructor runs) or False
InitTS == Fresh /\ cfg \in TSCfgSet /\ ts = NewTS /\ pc \in {"idle", "made"}

NextTS == Next \/ ts_run \/ ts_get_residuals \/ ts_plot_residual \/ ts_plot_rift_subsidence

SpecTS == InitTS /\ [][NextTS]_vars

InitCompac ==
    /\ cfg \in CompacCfgSet
    /\ pc = "compac"
    /\ K = 3
    /\ \E S1 \in SSet, S2 \in SSet : DATA = <<DataRow(10, S1), UnsetRow, DataRow(0, S2)>>
    /\ TL = TLroot /\ TIMSC = TIMSCof(TLroot)
    /\ CONBET = CONBETof /\ CONTRM = CONTRMof(TLroot)
    /\ GP1 = 0 /\ GP2 = 0 /\ GP3 = 0
    /\ AMPL = 10 /\ WAVEN = 10
    /\ SINIT = 0 /\ TRINIT = 0
    /\ TEM = << <<>>, <<>> >>
    /\ exc = "none"
    /\ BETA1 = 0 /\ KRR = 0 /\ T = 0 /\ DT = 0 /\ DTI = 0
    /\ JGI = 1 /\ JFLAG = 0 /\ IADV = 1
    /\ CI = 1 /\ CJ = 1 /\ CF = <<>>
    /\ file = <<>>
    /\ beta_groups = <<>>
    /\ ts = NewTS
    /\ hist = [calls |-> <<>>, betas |-> <<>>, raw |-> DATA, pre |-> <<>>, runs |-> <<>>]

NextCompac == COMPAC \/ COMPAC_row \/ COMPAC_newton \/ reapply

SpecCompac == InitCompac /\ [][NextCompac]_vars

\* ------------------------------------------------------------------ claims

\* the rows of 1..K whose time is unset, and the states between the end of the
\* beta loop and WRITE
Sentinels == {i \in 1..K : ~Row(DATA, i).t.set}
SweepDone == pc \in {"final", "compac", "crow", "newton", "write"}

\* C1: when a sweep over n beta values has ended, rows 1..K hold exactly n
\* groups: n-1 rows have an unset time, each of them has all four fields unset,
\* none is the first or the last row, and no two of them are adjacent
C1_SentinelSeparation ==
    SweepDone =>
        /\ Cardinality(Sentinels) = Len(hist.betas) - 1
        /\ \A i \in Sentinels :
               Row(DATA, i) = UnsetRow /\ i > 1 /\ i < K /\ (i + 1) \notin Sentinels

C1_Witness == pc = "write" /\ Len(hist.betas) = 3 /\ Cardinality(Sentinels) = 2

\* C2: while the table holds solver times, no row of a beta group has a time
\* smaller than the row before it
C2_TimesNonDecreasing ==
    pc \in {"beta", "step", "ret", "final"} =>
        \A i \in 2..Len(DATA) :
            (DATA[i].t.set /\ DATA[i - 1].t.set) => DATA[i].t.v >= DATA[i - 1].t.v

\* an episode that run() simulates, or one that it does not, has TBEGi <= TENDi
ActiveDisorder ==
    \/ IRIFT >= 1 /\ TBEG1 <= TEND1
    \/ IRIFT >= 2 /\ TBEG2 <= TEND2
    \/ IRIFT >= 3 /\ TBEG3 <= TEND3
InactiveDisorder ==
    \/ IRIFT < 2 /\ TBEG2 <= TEND2
    \/ IRIFT < 3 /\ TBEG3 <= TEND3

\* C3: once run() has been entered with TBEGi <= TENDi for an episode
\* i <= IRIFT it has raised AssertionError having called nothing but
\* check_cfg: TL is not computed, no row and no file exists; the ordering of
\* the episodes above IRIFT never raises it
C3_RejectsDisorder ==
    pc # "idle" =>
        /\ ActiveDisorder =>
              /\ pc = "raised" /\ exc = "AssertionError"
              /\ hist.calls = <<"check_cfg">>
              /\ TL = TL0 /\ K = 1 /\ DATA = <<>> /\ file = <<>>
        /\ ~ActiveDisorder => exc # "AssertionError"

C3_Witness ==
    /\ pc = "raised" /\ exc = "AssertionError"
    /\ IRIFT = 2 /\ TBEG1 > TEND1 /\ TBEG2 = TEND2 /\ InactiveDisorder

\* the runs of this process that have ended, the one in hand included
RunsSoFar == IF Finished THEN Append(hist.runs, ThisRun) ELSE hist.runs

\* C4: two runs of one process with the same parameter values end the same
\* way and write the same file, whatever ran before them
C4_Deterministic ==
    \A i \in DOMAIN RunsSoFar, j \in DOMAIN RunsSoFar :
        RunsSoFar[i].cfg = RunsSoFar[j].cfg =>
            RunsSoFar[i].exc = RunsSoFar[j].exc /\ RunsSoFar[i].out = RunsSoFar[j].out

\* the number of rows in the groups i.. of what the reader returned
RECURSIVE RowsRead(_, _)
RowsRead(groups, i) ==
    IF i > Len(groups) THEN 0 ELSE Len(groups[i][1]) + RowsRead(groups, i + 1)

\* the lines of the file that are not sentinel rows, in order
DataLines == SelectSeq(file, LAMBDA l : l[1] # UNSETVAL)

RECURSIVE Concat(_, _, _)
Concat(groups, i, col) ==
    IF i > Len(groups) THEN <<>> ELSE groups[i][col] \o Concat(groups, i + 1, col)

\* C5: the reader returns one group per beta value, and the groups hold, in
\* order, exactly the data rows of the file: their ages as written and their
\* subsidences times 1000
C5_ReadBack ==
    pc = "read" =>
        /\ Len(beta_groups) = Len(hist.betas)
        /\ Concat(beta_groups, 1, 1) = [i \in 1..Len(DataLines) |-> DataLines[i][1]]
        /\ Concat(beta_groups, 1, 2) = [i \in 1..Len(DataLines) |-> DataLines[i][2] * 1000]

C7_CapIsSilent ==
    /\ Len(CF) <= MAXIT + 1
    /\ ~(pc = "raised" /\ CJ >= MAXIT)

\* C8: calculate_TL, having obtained a thickness TL <= TC, returns to run()
C8_ReportsAndReturns ==
    (pc # "idle" /\ check_cfg /\ DISC >= 0 /\ TLroot <= TC) =>
        ~(pc = "raised" /\ hist.calls = <<"check_cfg", "calculate_TL">>)

\* how often, and where, run() has made a call
Count(name) == Cardinality({i \in DOMAIN hist.calls : hist.calls[i] = name})
Last(name) == CHOOSE i \in DOMAIN hist.calls :
                  hist.calls[i] = name /\ \A j \in DOMAIN hist.calls : hist.calls[j] = name => j <= i

\* C9: the rows are converted in one pass that follows the last TIMSTR call
\* of the last beta value: a row with a time has age TBEG1 - t*TIMSC, heat flow
\* h*CONDTY and strain rate g/TIMSC of the values TIMSTR left, a sentinel row
\* stays unset; COMPAC is called after that pass, once, exactly when ICOMP = 1
C9_FinalisedOnce ==
    /\ pc \in {"beta", "step", "ret", "final"} =>
           Count("dimensionalise") = 0 /\ Count("COMPAC") = 0
    /\ SweepDone /\ pc # "final" =>
           /\ Count("dimensionalise") = 1
           /\ Count("TIMSTR") = IRIFT * Len(hist.betas)
           /\ Last("TIMSTR") < Last("dimensionalise")
           /\ Len(DATA) = K
           /\ \A i \in 1..K :
                  IF ~Row(hist.raw, i).t.set THEN DATA[i] = UnsetRow
                  ELSE /\ DATA[i].t = Val(TBEG1 * (FP4 \div 10) - hist.raw[i].t.v)
                       /\ DATA[i].h = Val(RDiv(hist.raw[i].h.v * CONDTY, 100))
                       /\ DATA[i].g = Val(RDiv(hist.raw[i].g.v * FP4, TIMSC))
                       /\ pc = "compac" => DATA[i].s = hist.raw[i].s
    /\ pc \in {"write", "done", "read"} =>
           /\ Count("dimensionalise") = 1
           /\ Count("COMPAC") = (IF ICOMP = 1 THEN 1 ELSE 0)
           /\ ICOMP = 1 => Last("dimensionalise") < Last("COMPAC")

C9_Witness ==
    /\ pc = "write" /\ ICOMP = 1 /\ IRIFT = 2 /\ Count("COMPAC") = 1
    /\ Sentinels # {} /\ DATA[K].t = Val(TSTOP * (FP4 \div 10))

\* C10 as stated: a further application of COMPAC changes no row's subsidence
\* by more than the tolerance
C10_Idempotent ==
    (pc = "write" /\ Applied >= 2) =>
        \A i \in 1..K :
            hist.pre[i].s.set => Abs(DATA[i].s.v - hist.pre[i].s.v) <= 1

\* C10 as amended: every application loads the table it is given again: with
\* PHI0 = 0 it multiplies each row's subsidence by RHOA/(RHOA-RHOS), and
\* whatever PHI0 is it leaves only a subsidence of 0 as it is
C10_LoadsAgain ==
    pc = "write" =>
        \A i \in 1..K :
            hist.pre[i].s.set =>
                /\ hist.pre[i].s.v = 0 => DATA[i].s = Val(0)
                /\ PHI0 = 0 =>
                      /\ DATA[i].s.set
                      /\ Abs(DATA[i].s.v * (RHOA - RHOS) - hist.pre[i].s.v * RHOA)
                            <= 2 * Abs(RHOA - RHOS)

C10_Witness ==
    /\ pc = "write" /\ Applied = 2 /\ PHI0 = 0
    /\ DATA[1].s.v > hist.pre[1].s.v + 1 /\ DATA[3].s = Val(0)

\* C11: when run() calls TIMSTR for a later episode (KRR > 0), the buffer the
\* time loop reads first (row JGI after the entry code) holds the profile the
\* last step of the previous episode wrote, whatever the number of steps of
\* that episode
C11_BufferCarriedOver ==
    [][(pc = "ret" /\ pc' = "step") => TEM'[JGI'] = TEM[JGI]]_vars

\* C12: a time step that starts at or after the end time DTEND of the
\* stretching is computed with advection off (IADV = 0)
C12_NoAdvectionAfterDTEND ==
    (pc = "step" /\ T >= DTENDArg(KRR)) => IADV = 0

\* C13: during a TIMSTR run the time T never exceeds the halt time DTHALT of
\* its episode, and when the run returns T is DTHALT and the last row recorded
\* has the time DTHALT
C13_EndsAtDTHALT ==
    /\ pc \in {"step", "ret"} => T <= DTHALT(KRR)
    /\ pc = "ret" => T = DTHALT(KRR) /\ Row(DATA, K).t = Val(DTHALT(KRR))

\* C14: the strain-rate magnitude G a later TIMSTR run is called with is the
\* one its own regime (1, 2 or 3) derives from its own stretching factor and
\* duration: ln(BETA2)/(DTEND2-DTBEG2) for the second run and
\* ln(BETA3)/(DTEND3-DTBEG3) for the third when the regime is 1
C14_OwnStrainRate ==
    pc = "step" =>
        /\ (KRR = 1 /\ ITYPE2 \in 1..3) =>
               GArg(1) = GofType(ITYPE2, BETA2, DTEND2 - DTBEG2, 0, TIMSC)
        /\ (KRR = 2 /\ ITYPE3 \in 1..3) =>
               GArg(2) = GofType(ITYPE3, BETA3, DTEND3 - DTBEG3, 0, TIMSC)

\* C15: every pass of the time loop leaves the current buffer (row JGI) as it
\* was, writes the other buffer with a finite-difference update whose
\* diffusion and advection terms both read the current buffer, and then swaps
\* the roles of the two buffers
C15_PingPong ==
    [][pc = "step" =>
         /\ TEM'[JGI] = TEM[JGI]
         /\ TEM'[3 - JGI] =
                FDLoop(TEM[3 - JGI], TEM[JGI], 2, DT,
                       IF IADV = 1
                       THEN AdvRate(ITYPEArg(KRR), KRR, GArg(KRR), T, DTENDArg(KRR))
                       ELSE 0,
                       FALSE)
         /\ JGI' = 3 - JGI]_vars

\* C16: at the top of the beta loop, before the first episode (KRR = 0) of
\* each beta value of the sweep, SINIT and TRINIT are both 0
C16_ResetPerBeta ==
    pc = "beta" => SINIT = 0 /\ TRINIT = 0

\* C17: advection is switched off, and with it the post-stretch rows begin,
\* only in a pass of the time loop that has recorded a row at exactly
\* T = DTEND with advection on and has set SINIT and TRINIT from that row, so
\* every post-stretch row of a TIMSTR run is anchored to the end of stretching
\* of its own run
C17_AnchoredAtDTEND ==
    [][(pc = "step" /\ IADV = 1 /\ IADV' = 0) =>
           /\ T' = DTENDArg(KRR)
           /\ K' = K + 1
           /\ DATA'[K'].t = Val(T')
           /\ SINIT' = DATA'[K'].s.v
           /\ TRINIT' = TRAP(TEM'[JGI'])]_vars

\* C18: every step of the time loop has a size DT with 0 <= DT <= DTI, where
\* DTI is the smallest of DZ**2/2, DZ/GMAX and DTST; no step is negative
C18_StepWithinDTI ==
    pc = "step" =>
        /\ DTI = DTIof(GArg(KRR))
        /\ 0 <= DT /\ DT <= DTI

\* C19: at every advecting step, whatever the regime, the strain-rate
\* multiplier of the advection term is at most GMAX = AMPL + G, the rate the
\* advective limit DZ/GMAX of the step size is computed from
C19_GMAXIsPeak ==
    (pc = "step" /\ IADV = 1) =>
        AdvRate(ITYPEArg(KRR), KRR, GArg(KRR), T, DTENDArg(KRR)) <= GMAXof(GArg(KRR))

\* C20: for regime 4, whenever a pass of TIMSTR has SUBCAL evaluate BETAT
\* (a row is appended during stretching) at a time in the middle segment,
\* the breakpoint P is G/(AMPL*WAVEN); at a time in the ramp-down segment P
\* is G/(AMPL*WAVEN) and R is DTEND - G/(AMPL*WAVEN): a breakpoint keeps its
\* value for the later SUBCAL calls of the episode
C20_BreakpointsKept ==
    [][(pc = "step" /\ pc' # "raised" /\ IADV = 1 /\ ITYPEArg(KRR) = 4 /\ K' = K + 1)
       => LET www   == IF KRR = 0 THEN T' ELSE T' - DTBEGX(KRR)
              g     == GArg(KRR)
              dtend == DTENDArg(KRR)
          IN  /\ (www > BP(g) /\ www <= dtend - BP(g))
                 => SUBCAL_P(g, www, dtend) = BP(g)
              /\ www > dtend - BP(g)
                 => /\ SUBCAL_P(g, www, dtend) = BP(g)
                    /\ SUBCAL_R(g, www, dtend) = dtend - BP(g)]_vars

\* C21: every TIMSTR run terminates: once run() is inside the stepping loop
\* of TIMSTR, the loop is left, by its break or by an exception, for every
\* configuration that check_cfg accepts with BETMIN > 0, BETA2 > 0, BETA3 > 0
C21_TIMSTRTerminates ==
    (pc = "step" /\ check_cfg /\ BETMIN > 0 /\ BETA2 > 0 /\ BETA3 > 0) ~> (pc \in {"ret", "raised"})

\* C22: the beta sweep of run() terminates after finitely many beta values:
\* once run() is at the top of its beta loop, the loop is left, by its break
\* or by an exception, whatever BETMIN, BETMAX and BETINC are
C22_SweepTerminates == (pc = "beta") ~> (pc \in {"final", "raised"})

\* the TIMSTR calls made so far for the beta value in hand
TimstrOfBeta ==
    Cardinality({i \in DOMAIN hist.calls :
                    i > Last("set_dless_constants") /\ hist.calls[i] = "TIMSTR"})

\* C23: for each beta value TIMSTR is run IRIFT times in the order KRR = 0,
\* 1, ..., IRIFT-1: the run entered is the one after those made so far, run 0
\* starts at time 0, run 1 at DTBEG2 and run 2 at DTBEG3, each the halt time of
\* the run before it, the third run gets BETA1*BETA2 as the previous
\* stretching factor, and the beta value is left after run IRIFT-1
C23_EpisodesInOrder ==
    [][/\ (pc \in {"first", "ret"} /\ pc' = "step")
          => /\ KRR' = TimstrOfBeta
             /\ KRR' < IRIFT
             /\ KRR' = 0 => T' = 0
             /\ KRR' = 1 => T' = DTBEG2 /\ T' = DTHALT(0)
             /\ KRR' = 2 => /\ T' = DTBEG3 /\ T' = DTHALT(1)
                            /\ BETAprev(2) = RDiv(BETA1 * BETA2, 100)
       /\ (pc = "ret" /\ pc' \in {"beta", "final"})
          => TimstrOfBeta = IRIFT /\ KRR = IRIFT - 1]_vars

\* the third run of a three-episode configuration has returned
C23_Witness == pc = "ret" /\ KRR = 2 /\ IRIFT = 3 /\ TimstrOfBeta = 3

\* C24: the two boundary nodes of both temperature buffers keep their initial
\* values, 1 at the surface (index 0) and 0 at the base (index JN), through
\* every time step of every episode of a beta value
C24_BoundariesFixed ==
    \A b \in 1..2 : TEM[b] # <<>> => TEM[b][1] = FP4 /\ TEM[b][JNP1] = 0

\* the second episode is under way and the interior of both buffers has left
\* the conductive profile
C24_Witness ==
    /\ pc = "step" /\ KRR = 1 /\ T > DTBEG2
    /\ \A b \in 1..2 : TEM[b] # <<>> /\ TEM[b][2] # Conductive[2] /\ TEM[b][JN] # Conductive[JN]

\* C25: a plot_rift_subsidence, get_residuals or plot_residual call made on an
\* object whose model has not been run (ready_to_plot false) runs the model
\* first and does not fail: the call ends without an exception and leaves
\* ready_to_plot set
C25_RunsModelFirst ==
    [][(Len(ts'.calls) = Len(ts.calls) + 1 /\ ~ts.ready_to_plot)
          => (ts'.exc = "none" /\ ts'.ready_to_plot)]_vars

\* C26: once a run's output has been read, the beta labels the caller computed
\* from BETMIN, BETMAX and BETINC are the beta values the run simulated, one
\* label per beta group and in the same order
C26_LabelsMatchGroups ==
    pc = "read" =>
        /\ Len(ts.BETAs) = Len(beta_groups)
        /\ ts.BETAs = hist.betas

\* C27: a get_residuals call made after a run has completed returns the
\* residuals of the output of that latest run, whatever calls came before it
C27_ResidualsOfLatestRun ==
    [][(/\ pc = "read"
        /\ Len(ts'.calls) = Len(ts.calls) + 1
        /\ ts'.calls[Len(ts'.calls)] = "get_residuals")
          => (ts'.ret.set /\ ts'.ret.v = get_residuals_of(beta_groups))]_vars

\* ------------------------------------------------- the table at capacity

\* a sweep whose beta does not change: BETINC = 0, so that every pass of the
\* beta loop simulates 1.5 again and appends the same group
CapCfg == [Base EXCEPT !.BETMAX = 150, !.BETINC = 0]

\* the nine rows (solver time, subsidence, crust, strain rate) that TIMSTR
\* appends for beta = 1.5 under CapCfg, and the sentinel row run() puts after
\* them
CapGroup ==
    <<[t |-> Val(0),      s |-> Val(0),      h |-> Val(10000), g |-> Val(556)],
      [t |-> Val(14547),  s |-> Val(54585),  h |-> Val(11540), g |-> Val(556)],
      [t |-> Val(29094),  s |-> Val(101832), h |-> Val(13340), g |-> Val(556)],
      [t |-> Val(40000),  s |-> Val(133548), h |-> Val(14860), g |-> Val(556)],
      [t |-> Val(54547),  s |-> Val(136650), h |-> Val(14860), g |-> Val(0)],
      [t |-> Val(69094),  s |-> Val(139752), h |-> Val(14860), g |-> Val(0)],
      [t |-> Val(83641),  s |-> Val(142854), h |-> Val(14860), g |-> Val(0)],
      [t |-> Val(98188),  s |-> Val(145956), h |-> Val(14860), g |-> Val(0)],
      [t |-> Val(100000), s |-> Val(146354), h |-> Val(14860), g |-> Val(0)],
      UnsetRow>>

\* the two temperature buffers TIMSTR leaves after that beta
CapTEM ==
    << <<10000, 9976, 9938, 9868, 9748, 9559, 9283, 8914, 8451, 7902, 7283,
         6614, 5910, 5187, 4452, 3712, 2970, 2228, 1485, 743, 0>>,
       <<10000, 9978, 9942, 9875, 9757, 9570, 9296, 8926, 8462, 7911, 7290,
         6618, 5913, 5188, 4453, 3712, 2970, 2228, 1485, 743, 0>> >>

\* the state of the beta loop when n betas of CapCfg have been simulated: n
\* copies of the group in the table and the solver variables as the n-th
\* TIMSTR left them; on return from that TIMSTR (line 956) K is on the group's
\* last row, at the top of the loop (line 935) the sentinel has been put after
\* it and K is on the row that follows
Looping(n, at) ==
    /\ cfg = CapCfg
    /\ pc = at
    /\ K = IF at = "ret" THEN n * Len(CapGroup) - 1 ELSE n * Len(CapGroup) + 1
    /\ DATA = [i \in 1..(IF at = "ret" THEN n * Len(CapGroup) - 1 ELSE n * Len(CapGroup)) |->
                  CapGroup[((i - 1) % Len(CapGroup)) + 1]]
    /\ TL = TLroot /\ TIMSC = TIMSCof(TLroot)
    /\ CONBET = CONBETof /\ CONTRM = CONTRMof(TLroot)
    /\ GP1 = CapGroup[1].g.v /\ GP2 = 0 /\ GP3 = 0
    /\ AMPL = 10 /\ WAVEN = 10
    /\ SINIT = CapGroup[4].s.v /\ TRINIT = 6622
    /\ TEM = CapTEM
    /\ exc = "none"
    /\ BETA1 = cfg.BETMIN /\ KRR = 0 /\ T = CapGroup[9].t.v /\ DT = 4849 /\ DTI = 4849
    /\ JGI = 1 /\ JFLAG = 2 /\ IADV = 0
    /\ CI = 1 /\ CJ = 1 /\ CF = <<>>
    /\ file = <<>>
    /\ beta_groups = <<>>
    /\ ts = NewTS
    /\ hist = [calls |-> <<"check_cfg", "calculate_TL", "nondimensionalise_parameters", "setup_constants">>
                         \o [i \in 1..(2 * n) |-> IF i % 2 = 1 THEN "set_dless_constants" ELSE "TIMSTR"],
               betas |-> [i \in 1..n |-> cfg.BETMIN],
               raw |-> <<>>, pre |-> <<>>, runs |-> <<>>]

LoopTop(n) == Looping(n, "beta")
LoopRet(n) == Looping(n, "ret")

\* the number of betas already in the table when the sweep is taken up, and
\* the number the table has room for
CapFrom == 988
CapBetas == NDIM2 \div Len(CapGroup)

\* the sweep taken up at the top of one of its last passes, or on return from
\* the TIMSTR of the pass that fills the table
InitCap == (\E n \in CapFrom..(CapBetas - 1) : LoopTop(n)) \/ LoopRet(CapBetas)

\* the beta loop of a one-episode run
NextCap == run_beta \/ run_first \/ TIMSTR_step \/ run_sweep

SpecCap == InitCap /\ [][NextCap]_vars

\* Looping is what the loop itself produces: the pass that starts in
\* LoopTop(n) returns from TIMSTR in LoopRet(n + 1) and ends in
\* LoopTop(n + 1), and the first pass of a run of the same sweep with
\* BETINC = 0.5 ends with the table, the buffers and the solver variables of
\* LoopRet(1)
LoopTopKept ==
    [][/\ (pc = "step" /\ pc' = "ret") => \E n \in 1..CapBetas : LoopRet(n)'
       /\ (pc = "ret" /\ pc' = "beta") => \E n \in 1..CapBetas : LoopTop(n)']_vars
LoopTopFirst ==
    (cfg = [Base EXCEPT !.BETMAX = 150] /\ pc = "final") =>
        /\ DATA = SubSeq(CapGroup, 1, 9) /\ K = 9
        /\ TEM = CapTEM /\ GP1 = CapGroup[1].g.v /\ SINIT = CapGroup[4].s.v /\ TRINIT = 6622
        /\ T = CapGroup[9].t.v /\ DT = 4849 /\ DTI = 4849 /\ JGI = 1 /\ JFLAG = 2 /\ IADV = 0 /\ KRR = 0

\* C28: the row counter K stays within the table's NDIM2 rows and no write to
\* the table fails for lack of room
C28_WithinCapacity == K <= NDIM2 /\ exc # "IndexError"

\* rows i..j of the table belong to one beta group: no sentinel lies between
SameGroup(D, i, j) == \A k \in i..j : D[k].t.set

\* C29: while the table holds solver times, no two rows of one beta group
\* have the same time
C29_DistinctTimes ==
    pc \in {"beta", "step", "ret", "final"} =>
        \A i \in DOMAIN DATA : \A j \in DOMAIN DATA :
            (i < j /\ SameGroup(DATA, i, j)) => DATA[i].t.v # DATA[j].t.v

====
